---- MODULE Spec2Model ----
(***************************************************************************)
(* Model of the io_uring reactor of cros_async (uring_executor.rs), the    *)
(* backend selector and entry points of lib.rs, and the L2 table cache of  *)
(* qcow (l2_cache.rs).                                                     *)
(***************************************************************************)
EXTENDS Integers, Sequences, FiniteSets, TLC

\* ------------------------------------------------------------------ bounds
\* Registrations accepted during one reactor lifetime (caps next_token).
MaxTokens == 3
\* Tasks submitted through add_future during one reactor lifetime.
MaxQueue == 2
\* Threads of the process that call the backend selector.
NumThreads == 2
\* Selector calls made by one thread.
MaxCalls == 2
\* Largest table_size an L2Cache is constructed with.
MaxTableSize == 2
\* Largest capacity an L2Cache is constructed with.
MaxCapacity == 1
\* Largest room a HashMap reports beyond the capacity asked for.
MaxSpare == 1
\* Largest l1 index a table is cached under.
MaxL1Index == 1
\* Calls made on one L2Cache and on the tables it hands out.
MaxCacheCalls == 4

\* ------------------------------------------------------------------ state
VARIABLES
    State,      \* thread_local!(STATE): Option<RingWakerState>, as a sequence of length <= 1
    live,       \* number of URingExecutor values alive on the thread
    futures,    \* the live executor's FutureList (URingExecutor.futures)
    pc,         \* where the thread is: "idle", "poll", "wait", "done" or "panic"
    idx,        \* during a poll pass: the position polled next
    waits,      \* calls of wait_wake_event made by the current run
    result,     \* Option: what the current run returned
    ret,        \* the call made by the last step and what it returned
    wake_log,   \* token -> times the waker registered under it was woken (this reactor)
    cancelled,  \* the tokens whose record a cancel removed (this reactor)
    issued,     \* the tokens registrations returned, in order (this reactor)
    handed,     \* the tokens held by the pending tasks select has handed back
    USE_URING,  \* static USE_URING: AtomicU32 of use_uring
    sel,        \* per thread: where it is inside use_uring, and what it holds
    probes,     \* calls of uring_executor::supported made by the process
    cache,      \* the L2Cache
    requested,  \* the capacity L2Cache::new was called with
    hand,       \* Option: the L2Table the cache's caller holds
    cret,       \* the cache call made by the last step and what it returned
    touched,    \* per table (cached by l1 index, held): why its flag should be set
    panicked,   \* a cache call panicked
    ncalls      \* calls made on the cache and its tables so far

reactor_vars == <<State, live, futures, pc, idx, waits, result, ret, wake_log, cancelled,
                  issued, handed>>
selector_vars == <<USE_URING, sel, probes>>
cache_vars == <<cache, requested, hand, cret, touched, panicked, ncalls>>
vars == <<State, live, futures, pc, idx, waits, result, ret, wake_log, cancelled, issued,
          handed, USE_URING, sel, probes, cache, requested, hand, cret, touched,
          panicked, ncalls>>

\* ------------------------------------------------------------ result values
\* Result values.  Each field holds values of one type: Ok(v) carries a
\* value (a token, a file, a state), OkUnit is Ok(()), OkOutput carries what
\* a run returns, Err carries the error's name.
Ok(v) == [ok |-> TRUE, v |-> v]
OkUnit == [ok |-> TRUE]
OkOutput(o) == [ok |-> TRUE, output |-> o]
Err(e) == [ok |-> FALSE, err |-> e]
\* Result::map_err with one of the variants of lib.rs's Error that wrap a
\* backend's error (Error::URingExecutor, Error::FdExecutor).
map_err(res, backend) ==
    IF res.ok THEN res ELSE [ok |-> FALSE, err |-> res.err, backend |-> backend]
Unit == "()"

None == << >>
Some(x) == << x >>
is_some(o) == Len(o) = 1
unwrap(o) == o[1]

Tokens == 0 .. (MaxTokens - 1)
\* The descriptor the tasks of the model watch (the read end of a pipe).
TaskFd == 3
Fds == {TaskFd}
ReadEvents == "read"
WriteEvents == "write"

\* A map as a function; insert and remove as BTreeMap does them.
EmptyMap == [k \in {} |-> None]
MapInsert(m, k, x) == [j \in (DOMAIN m) \cup {k} |-> IF j = k THEN x ELSE m[j]]
MapRemove(m, k) == [j \in (DOMAIN m) \ {k} |-> m[j]]

\* ------------------------------------------------------ the kernel context
\* URingContext: the polls submitted and still armed, and the completions
\* queued (in order) and not yet returned by wait().
URingContext_new == [polls |-> {}, cq |-> << >>]

add_poll_fd(ctx, token) == [ctx EXCEPT !.polls = @ \cup {token}]

\* A removal disarms the poll; the kernel may or may not queue a completion
\* carrying the token (cqe).
remove_poll_fd(ctx, token, cqe) ==
    [ctx EXCEPT !.polls = @ \ {token},
                !.cq = IF cqe THEN Append(@, token) ELSE @]

\* The descriptor behind an armed poll becomes ready: the poll completes.
poll_complete(ctx, token) ==
    [ctx EXCEPT !.polls = @ \ {token}, !.cq = Append(@, token)]

\* -------------------------------------------------------- RingWakerState
\* A pending-interest record: (File, WatchingEvents, Waker).  The File is the
\* duplicate of fd; the Waker names the task whose ready flag it sets.
Record(file, events, waker) == [file |-> file, events |-> events, waker |-> waker]

\* libc::dup: a new descriptor for the same open file, or a failure.
dup_fd(fd, dup_ok) == IF dup_ok THEN Ok([dup_of |-> fd]) ELSE Err("DuplicatingFd")

RingWakerState_new(ctx_ok) ==
    IF ctx_ok
    THEN Ok([ctx |-> URingContext_new,
             token_map |-> EmptyMap,
             next_token |-> 0,
             new_futures |-> << >>])
    ELSE Err("CreatingContext")

\* Faulty variant of add_fd: the counter is not advanced after the insert.
add_fd_same_token(self, fd, waker, events, dup_ok, submit_ok) ==
    LET duped_fd == dup_fd(fd, dup_ok) IN
    IF ~duped_fd.ok THEN [state |-> self, res |-> duped_fd]
    ELSE IF ~submit_ok THEN [state |-> self, res |-> Err("SubmittingWaker")]
    ELSE LET next_token == self.next_token IN
         [state |-> [self EXCEPT
                        !.ctx = add_poll_fd(@, next_token),
                        !.token_map = MapInsert(@, next_token,
                                                Record(duped_fd.v, events, waker))],
          res |-> Ok(next_token)]

\* Faulty variant of add_fd: a refused submission still uses up the token.
add_fd_burns_token(self, fd, waker, events, dup_ok, submit_ok) ==
    LET duped_fd == dup_fd(fd, dup_ok) IN
    IF ~duped_fd.ok THEN [state |-> self, res |-> duped_fd]
    ELSE IF ~submit_ok
    THEN [state |-> [self EXCEPT !.next_token = @ + 1], res |-> Err("SubmittingWaker")]
    ELSE LET next_token == self.next_token IN
         [state |-> [self EXCEPT
                        !.ctx = add_poll_fd(@, next_token),
                        !.token_map = MapInsert(@, next_token,
                                                Record(duped_fd.v, events, waker)),
                        !.next_token = @ + 1],
          res |-> Ok(next_token)]

\* Faulty variant of add_fd: the new record replaces the map's contents.
add_fd_replaces_records(self, fd, waker, events, dup_ok, submit_ok) ==
    LET duped_fd == dup_fd(fd, dup_ok) IN
    IF ~duped_fd.ok THEN [state |-> self, res |-> duped_fd]
    ELSE IF ~submit_ok THEN [state |-> self, res |-> Err("SubmittingWaker")]
    ELSE LET next_token == self.next_token IN
         [state |-> [self EXCEPT
                        !.ctx = add_poll_fd(@, next_token),
                        !.token_map = MapInsert(EmptyMap, next_token,
                                                Record(duped_fd.v, events, waker)),
                        !.next_token = @ + 1],
          res |-> Ok(next_token)]

\* add_fd returns the state after the call and the call's result.
add_fd(self, fd, waker, events, dup_ok, submit_ok) ==
    LET duped_fd == dup_fd(fd, dup_ok) IN
    IF ~duped_fd.ok THEN [state |-> self, res |-> duped_fd]
    ELSE IF ~submit_ok THEN [state |-> self, res |-> Err("SubmittingWaker")]
    ELSE LET next_token == self.next_token IN
         [state |-> [self EXCEPT
                        !.ctx = add_poll_fd(@, next_token),
                        !.token_map = MapInsert(@, next_token,
                                                Record(duped_fd.v, events, waker)),
                        !.next_token = @ + 1],
          res |-> Ok(next_token)]

\* Faulty variant of cancel_waker: the record is looked up, not removed.
RingWakerState_cancel_waker_keeps(self, token, remove_ok, cqe) ==
    IF token \in DOMAIN self.token_map
    THEN IF remove_ok
         THEN [state |-> [self EXCEPT !.ctx = remove_poll_fd(@, token, cqe)],
               res |-> OkUnit, requested |-> TRUE]
         ELSE [state |-> self, res |-> Err("RemovingWaker"), requested |-> TRUE]
    ELSE [state |-> self, res |-> OkUnit, requested |-> FALSE]

\* Faulty variant of cancel_waker: the kernel removal is requested whether or
\* not the token has a record.
RingWakerState_cancel_waker_always(self, token, remove_ok, cqe) ==
    LET removed == [self EXCEPT
                      !.token_map = IF token \in DOMAIN @ THEN MapRemove(@, token) ELSE @] IN
    IF remove_ok
    THEN [state |-> [removed EXCEPT !.ctx = remove_poll_fd(@, token, cqe)],
          res |-> OkUnit, requested |-> TRUE]
    ELSE [state |-> removed, res |-> Err("RemovingWaker"), requested |-> TRUE]

\* Faulty variant of cancel_waker: the record is removed only once the kernel
\* has removed the poll.
RingWakerState_cancel_waker_after_kernel(self, token, remove_ok, cqe) ==
    IF token \in DOMAIN self.token_map
    THEN IF remove_ok
         THEN [state |-> [self EXCEPT !.token_map = MapRemove(@, token),
                                      !.ctx = remove_poll_fd(@, token, cqe)],
               res |-> OkUnit, requested |-> TRUE]
         ELSE [state |-> self, res |-> Err("RemovingWaker"), requested |-> TRUE]
    ELSE [state |-> self, res |-> OkUnit, requested |-> FALSE]

\* cancel_waker returns the state after the call, the call's result, and
\* whether it asked the kernel to remove the poll (requested).
RingWakerState_cancel_waker(self, token, remove_ok, cqe) ==
    IF token \in DOMAIN self.token_map
    THEN LET removed == [self EXCEPT !.token_map = MapRemove(@, token)] IN
         IF remove_ok
         THEN [state |-> [removed EXCEPT !.ctx = remove_poll_fd(@, token, cqe)],
               res |-> OkUnit, requested |-> TRUE]
         ELSE [state |-> removed, res |-> Err("RemovingWaker"), requested |-> TRUE]
    ELSE [state |-> self, res |-> OkUnit, requested |-> FALSE]

\* Faulty variant of the loop of wait_wake_event: the record of a completed
\* token is removed and its waker is not woken.
RECURSIVE wake_events_silent(_, _, _)
wake_events_silent(token_map, events, fired) ==
    IF events = << >> THEN [token_map |-> token_map, fired |-> fired]
    ELSE LET token == Head(events) IN
         IF token \in DOMAIN token_map
         THEN wake_events_silent(MapRemove(token_map, token), Tail(events), fired)
         ELSE wake_events_silent(token_map, Tail(events), fired)

\* Faulty variant of the loop of wait_wake_event: the record of a completed
\* token is looked up and its waker woken, and the record stays in the map.
RECURSIVE wake_events_keeps_record(_, _, _)
wake_events_keeps_record(token_map, events, fired) ==
    IF events = << >> THEN [token_map |-> token_map, fired |-> fired]
    ELSE LET token == Head(events) IN
         IF token \in DOMAIN token_map
         THEN wake_events_keeps_record(token_map, Tail(events),
                          Append(fired, [token |-> token, waker |-> token_map[token].waker]))
         ELSE wake_events_keeps_record(token_map, Tail(events), fired)

\* The loop of wait_wake_event over the completions wait() returned, in
\* order: a token that still has a record loses it and its waker is woken;
\* a token without a record is skipped.  `fired` lists the wakers woken.
RECURSIVE wake_events(_, _, _)
wake_events(token_map, events, fired) ==
    IF events = << >> THEN [token_map |-> token_map, fired |-> fired]
    ELSE LET token == Head(events) IN
         IF token \in DOMAIN token_map
         THEN wake_events(MapRemove(token_map, token), Tail(events),
                          Append(fired, [token |-> token, waker |-> token_map[token].waker]))
         ELSE wake_events(token_map, Tail(events), fired)

wait_wake_event(self, wait_ok) ==
    IF ~wait_ok
    THEN [state |-> self, res |-> Err("URingEnter"), events |-> << >>, fired |-> << >>]
    ELSE LET events == self.ctx.cq
             w == wake_events(self.token_map, events, << >>) IN
         [state |-> [self EXCEPT !.ctx.cq = << >>, !.token_map = w.token_map],
          res |-> OkUnit,
          events |-> events,
          fired |-> w.fired]

\* ------------------------------------------- the functions over thread-local STATE
notify_fd_ready(state, fd, waker, events, dup_ok, submit_ok) ==
    IF is_some(state)
    THEN LET r == add_fd(unwrap(state), fd, waker, events, dup_ok, submit_ok) IN
         [state |-> Some(r.state), res |-> r.res]
    ELSE [state |-> state, res |-> Err("InvalidContext")]

add_read_waker(state, fd, waker, dup_ok, submit_ok) ==
    notify_fd_ready(state, fd, waker, ReadEvents, dup_ok, submit_ok)

add_write_waker(state, fd, waker, dup_ok, submit_ok) ==
    notify_fd_ready(state, fd, waker, WriteEvents, dup_ok, submit_ok)

cancel_waker(state, token, remove_ok, cqe) ==
    IF is_some(state)
    THEN LET r == RingWakerState_cancel_waker(unwrap(state), token, remove_ok, cqe) IN
         [state |-> Some(r.state), res |-> r.res, requested |-> r.requested]
    ELSE [state |-> state, res |-> Err("InvalidContext"), requested |-> FALSE]

\* Faulty variant of add_future: without a reactor, a state is made to hold
\* the future.
add_future_lazy(state, future) ==
    LET made == IF is_some(state) THEN unwrap(state) ELSE RingWakerState_new(TRUE).v IN
    [state |-> Some([made EXCEPT !.new_futures = Append(@, future)]), res |-> OkUnit]

add_future(state, future) ==
    IF is_some(state)
    THEN [state |-> Some([unwrap(state) EXCEPT !.new_futures = Append(@, future)]),
          res |-> OkUnit]
    ELSE [state |-> state, res |-> Err("InvalidContext")]

\* A call of the reactor's interface as the caller sees it: the function, its
\* argument, what it returned, whether it asked the kernel for a removal, the
\* completions it took from the kernel, and whether its argument is a token
\* that a reactor dropped since had issued (stale).
Call(op, arg, res) ==
    [op |-> op, arg |-> arg, res |-> res, req |-> FALSE, events |-> << >>,
     stale |-> FALSE]
NoCall == Call("none", 0, OkUnit)

\* ------------------------------------------------------------------ tasks
\* A future with its needs-poll flag (ExecutableFuture).  kind says what the
\* future does when polled:
\*   "ready"   completes with val on its first poll (async { 5 })
\*   "pending" never completes and registers nothing (futures::pending())
\*   "read"    registers read interest on its descriptor on its first poll
\*             and completes with val when polled after its waker was woken
\*   "write"   the same with write interest
\*   "spawn"   submits a side-effect task with add_future, then completes
\*   "giveup"  registers read interest and asks to be polled again; on its
\*             second poll it cancels the token and completes with val
\*             (a task that drops a future still holding a token, whose
\*             Drop cancels it, as TestFut of the tests does)
TaskKinds == {"ready", "pending", "read", "write", "spawn", "giveup"}
UnitKinds == {"ready", "read", "giveup", "spawn"}
FailedOut == 0
Task(kind, val) ==
    [kind |-> kind, val |-> val, needs_poll |-> TRUE, done |-> FALSE,
     out |-> None, token |-> None]
UnitTask == Task("ready", 4)

Waker(list, i) == [list |-> list, i |-> i]
ExtWaker == Waker("ext", 0)

HasRecord(state, token) == is_some(state) /\ token \in DOMAIN unwrap(state).token_map

\* Whether the next poll of fut registers interest, and whether it cancels.
Registers(fut) == fut.kind \in {"read", "write", "giveup"} /\ fut.token = None
Cancels(fut) == fut.kind = "giveup" /\ fut.token # None
\* The outcomes the environment can give a call that is made (used), or the
\* one placeholder for a call that is not.
Inputs(used) == IF used THEN BOOLEAN ELSE {TRUE}

\* One poll of a future whose needs-poll flag was set.
poll_future(fut, state, waker, dup_ok, submit_ok, remove_ok, cqe) ==
    LET cleared == [fut EXCEPT !.needs_poll = FALSE] IN
    CASE fut.kind = "ready" ->
           [fut |-> [cleared EXCEPT !.done = TRUE, !.out = Some(fut.val)],
            state |-> state, call |-> NoCall]
      [] fut.kind = "pending" ->
           [fut |-> cleared, state |-> state,
            call |-> NoCall]
      [] fut.kind = "read" ->
           IF fut.token = None
           THEN LET r == add_read_waker(state, TaskFd, waker, dup_ok, submit_ok) IN
                [fut |-> IF r.res.ok
                         THEN [cleared EXCEPT !.token = Some(r.res.v)]
                         ELSE [cleared EXCEPT !.done = TRUE, !.out = Some(FailedOut)],
                 state |-> r.state,
                 call |-> Call("add_read_waker", TaskFd, r.res)]
           ELSE [fut |-> [cleared EXCEPT !.done = TRUE, !.out = Some(fut.val)],
                 state |-> state, call |-> NoCall]
      [] fut.kind = "write" ->
           IF fut.token = None
           THEN LET r == add_write_waker(state, TaskFd, waker, dup_ok, submit_ok) IN
                [fut |-> IF r.res.ok
                         THEN [cleared EXCEPT !.token = Some(r.res.v)]
                         ELSE [cleared EXCEPT !.done = TRUE, !.out = Some(FailedOut)],
                 state |-> r.state,
                 call |-> Call("add_write_waker", TaskFd, r.res)]
           ELSE [fut |-> [cleared EXCEPT !.done = TRUE, !.out = Some(fut.val)],
                 state |-> state, call |-> NoCall]
      [] fut.kind = "spawn" ->
           LET r == add_future(state, UnitTask) IN
           [fut |-> [cleared EXCEPT !.done = TRUE, !.out = Some(fut.val)],
            state |-> r.state,
            call |-> Call("add_future", 0, r.res)]
      [] fut.kind = "giveup" ->
           IF fut.token = None
           THEN LET r == add_read_waker(state, TaskFd, waker, dup_ok, submit_ok) IN
                [fut |-> IF r.res.ok
                         THEN [fut EXCEPT !.token = Some(r.res.v)]
                         ELSE [cleared EXCEPT !.done = TRUE, !.out = Some(FailedOut)],
                 state |-> r.state,
                 call |-> Call("add_read_waker", TaskFd, r.res)]
           ELSE LET r == cancel_waker(state, unwrap(fut.token), remove_ok, cqe) IN
                [fut |-> [cleared EXCEPT !.done = TRUE, !.out = Some(fut.val),
                                         !.token = None],
                 state |-> r.state,
                 call |-> [Call("cancel_waker", unwrap(fut.token), r.res)
                             EXCEPT !.req = r.requested]]

\* ------------------------------------------------------------ future lists
\* A FutureList: its termination policy (kind), the futures given to the
\* entry point (top) and the side-effect futures merged so far (added).
NoFutures == [kind |-> "None", top |-> << >>, added |-> << >>]
UnitFutures_new == [kind |-> "Unit", top |-> << >>, added |-> << >>]
RunOne_new(f) == [kind |-> "RunOne", top |-> <<f>>, added |-> << >>]
Select2_new(f1, f2) == [kind |-> "Select", top |-> <<f1, f2>>, added |-> << >>]
Select3_new(f1, f2, f3) == [kind |-> "Select", top |-> <<f1, f2, f3>>, added |-> << >>]
Complete2_new(f1, f2) == [kind |-> "Complete", top |-> <<f1, f2>>, added |-> << >>]
Complete3_new(f1, f2, f3) == [kind |-> "Complete", top |-> <<f1, f2, f3>>, added |-> << >>]

NumFutures(fl) == Len(fl.added) + Len(fl.top)
FutureAt(fl, i) == IF i <= Len(fl.added) THEN fl.added[i] ELSE fl.top[i - Len(fl.added)]
SetFutureAt(fl, i, f) ==
    IF i <= Len(fl.added)
    THEN [fl EXCEPT !.added[i] = f]
    ELSE [fl EXCEPT !.top[i - Len(fl.added)] = f]
WakerAt(fl, i) ==
    IF i <= Len(fl.added) THEN Waker("added", i) ELSE Waker("top", i - Len(fl.added))

\* The waker's effect: the future it was made for needs polling again.
wake(fl, waker) ==
    CASE waker.list = "top" /\ waker.i \in DOMAIN fl.top ->
           [fl EXCEPT !.top[waker.i].needs_poll = TRUE]
      [] waker.list = "added" /\ waker.i \in DOMAIN fl.added ->
           [fl EXCEPT !.added[waker.i].needs_poll = TRUE]
      [] OTHER -> fl

RECURSIVE wake_all(_, _)
wake_all(fl, fired) ==
    IF fired = << >> THEN fl ELSE wake_all(wake(fl, Head(fired).waker), Tail(fired))

any_ready(fl) ==
    \/ \E i \in DOMAIN fl.added : fl.added[i].needs_poll
    \/ \E i \in DOMAIN fl.top : fl.top[i].needs_poll

Finished(v) == [tag |-> "Finished", task |-> None, value |-> v]
Pending(f) == [tag |-> "Pending", task |-> Some(f), value |-> 0]

\* What poll_results returns once every future of the pass was polled:
\* Some(output) when the termination policy is satisfied.  The output is
\* held under the name of the list's kind: run_one is the future's value,
\* select the tuple of SelectResults, complete the tuple of values, unit ().
poll_results_output(fl) ==
    CASE fl.kind = "RunOne" ->
           IF fl.top[1].done THEN Some([run_one |-> unwrap(fl.top[1].out)]) ELSE None
      [] fl.kind = "Select" ->
           IF \E i \in DOMAIN fl.top : fl.top[i].done
           THEN Some([select |-> [i \in DOMAIN fl.top |->
                        IF fl.top[i].done THEN Finished(unwrap(fl.top[i].out))
                                          ELSE Pending(fl.top[i])]])
           ELSE None
      [] fl.kind = "Complete" ->
           IF \A i \in DOMAIN fl.top : fl.top[i].done
           THEN Some([complete |-> [i \in DOMAIN fl.top |-> unwrap(fl.top[i].out)]])
           ELSE None
      [] OTHER ->
           IF \A i \in DOMAIN fl.added : fl.added[i].done
           THEN Some([unit |-> Unit])
           ELSE None

\* --------------------------------------------------------- URingExecutor
\* Faulty variant of URingExecutor::new: STATE is replaced without looking at it.
URingExecutor_new_unchecked(state, future_list, ctx_ok) ==
    LET r == RingWakerState_new(ctx_ok) IN
    IF r.ok
    THEN [state |-> Some(r.v), res |-> Ok(future_list)]
    ELSE [state |-> state, res |-> r]

\* Faulty variant of URingExecutor::new: the refused attempt empties STATE,
\* as dropping an executor does.
URingExecutor_new_clears(state, future_list, ctx_ok) ==
    IF is_some(state)
    THEN [state |-> None, res |-> Err("AttemptedDuplicateExecutor")]
    ELSE LET r == RingWakerState_new(ctx_ok) IN
         IF r.ok
         THEN [state |-> Some(r.v), res |-> Ok(future_list)]
         ELSE [state |-> state, res |-> r]

\* URingExecutor::new: the state of the thread after the call, and Ok(the
\* executor's future list) or the error.
URingExecutor_new(state, future_list, ctx_ok) ==
    IF is_some(state)
    THEN [state |-> state, res |-> Err("AttemptedDuplicateExecutor")]
    ELSE LET r == RingWakerState_new(ctx_ok) IN
         IF r.ok
         THEN [state |-> Some(r.v), res |-> Ok(future_list)]
         ELSE [state |-> state, res |-> r]

\* Faulty variant of Drop for URingExecutor: the records and the queue are
\* cleared and the state, with its counter, stays in STATE.
URingExecutor_drop_keeps_state(state) ==
    IF is_some(state)
    THEN Some([unwrap(state) EXCEPT !.token_map = EmptyMap, !.new_futures = << >>])
    ELSE state

\* Drop for URingExecutor.
URingExecutor_drop(state) == None

\* Faulty variant of append_futures: the queued futures are put in front.
append_futures_in_front(fl, state) ==
    IF is_some(state)
    THEN [futures |-> [fl EXCEPT !.added = unwrap(state).new_futures \o @],
          state |-> Some([unwrap(state) EXCEPT !.new_futures = << >>]),
          panic |-> FALSE]
    ELSE [futures |-> fl, state |-> state, panic |-> TRUE]

\* append_futures: the queued futures move to the end of the list.
append_futures(fl, state) ==
    IF is_some(state)
    THEN [futures |-> [fl EXCEPT !.added = @ \o unwrap(state).new_futures],
          state |-> Some([unwrap(state) EXCEPT !.new_futures = << >>]),
          panic |-> FALSE]
    ELSE [futures |-> fl, state |-> state, panic |-> TRUE]

\* Faulty variant of run's loop: it waits whenever the pass gave no output,
\* without asking any_ready.
run_after_poll_blocks(fl, state) ==
    LET output == poll_results_output(fl) IN
    IF is_some(output)
    THEN [futures |-> fl, state |-> state, pc |-> "done",
          result |-> Some(OkOutput(unwrap(output)))]
    ELSE LET a == append_futures(fl, state) IN
         [futures |-> a.futures, state |-> a.state,
          pc |-> IF a.panic THEN "panic" ELSE "wait",
          result |-> None]

\* The body of run's loop after poll_results has polled every future:
\* return the output, or merge the new futures and either poll again or wait.
run_after_poll(fl, state) ==
    LET output == poll_results_output(fl) IN
    IF is_some(output)
    THEN [futures |-> fl, state |-> state, pc |-> "done",
          result |-> Some(OkOutput(unwrap(output)))]
    ELSE LET a == append_futures(fl, state) IN
         [futures |-> a.futures, state |-> a.state,
          pc |-> IF a.panic THEN "panic"
                 ELSE IF ~any_ready(a.futures) THEN "wait" ELSE "poll",
          result |-> None]

\* Faulty variant of run's loop: a failed wait is passed over and the loop
\* polls again.
run_after_wait_continues(fl, w) ==
    [futures |-> wake_all(fl, w.fired), pc |-> "poll", result |-> None]

\* The body of run's loop after wait_wake_event returned w: a failure leaves
\* run at once as its result (the ? operators), otherwise the wakers woken
\* have marked their futures and the loop polls again.
run_after_wait(fl, w) ==
    [futures |-> wake_all(fl, w.fired),
     pc |-> IF w.res.ok THEN "poll" ELSE "done",
     result |-> IF w.res.ok THEN None ELSE Some(w.res)]

\* ------------------------------------------------------------ entry points
\* lib.rs: the future list each entry point hands to run_executor.
run_one(fut) == RunOne_new(fut)
\* Faulty variant of select2: the arguments reach the list in reverse order.
select2_swapped(f1, f2) == Select2_new(f2, f1)
select2(f1, f2) == Select2_new(f1, f2)
select3(f1, f2, f3) == Select3_new(f1, f2, f3)
\* Faulty variant of complete2: the arguments reach the list in reverse order.
complete2_swapped(f1, f2) == Complete2_new(f2, f1)
complete2(f1, f2) == Complete2_new(f1, f2)
complete3(f1, f2, f3) == Complete3_new(f1, f2, f3)

\* The calls the thread makes: every kind of future in one and two slots,
\* three kinds in three slots; the future in slot i yields 4 + i.
Kinds3 == {"ready", "pending", "read"}
Spawns(fl) == Cardinality({i \in DOMAIN fl.top : fl.top[i].kind = "spawn"})
EntryLists ==
    {fl \in {run_one(Task(k, 5)) : k \in TaskKinds}
            \cup {select2(Task(k[1], 5), Task(k[2], 6)) : k \in TaskKinds \X TaskKinds}
            \cup {complete2(Task(k[1], 5), Task(k[2], 6)) : k \in TaskKinds \X TaskKinds}
            \cup {select3(Task(k[1], 5), Task(k[2], 6), Task(k[3], 7)) :
                     k \in Kinds3 \X Kinds3 \X Kinds3}
            \cup {complete3(Task(k[1], 5), Task(k[2], 6), Task(k[3], 7)) :
                     k \in Kinds3 \X Kinds3 \X Kinds3} :
        Spawns(fl) <= MaxQueue}

\* The lists an entry point is called with.  On a thread that already has a
\* reactor the construction fails whatever the list: one list stands for all.
ListsFor(state) == IF is_some(state) THEN {run_one(Task("ready", 5))} ELSE EntryLists

\* -------------------------------------------------------------- selector
UNKNOWN == 0
URING == 1
FD == 2
Threads == 1 .. NumThreads
\* A thread outside use_uring: the calls it has made and what the last returned.
SelIdle == [pc |-> "out", val |-> FALSE, caller |-> "none", calls |-> 0, got |-> None]
\* The functions of lib.rs that start with use_uring().
SelectorCallers ==
    {"run_executor", "add_read_waker", "add_write_waker", "cancel_waker", "add_future"}

\* use_uring: the match on the value loaded from USE_URING.  UNKNOWN sends the
\* thread to the probe; a committed value is returned.
use_uring_load(loaded) ==
    CASE loaded = UNKNOWN -> [pc |-> "supported", got |-> None]
      [] loaded = URING -> [pc |-> "out", got |-> Some(TRUE)]
      [] loaded = FD -> [pc |-> "out", got |-> Some(FALSE)]
      [] OTHER -> [pc |-> "unreachable", got |-> None]

\* use_uring: the value stored after the probe answered.
use_uring_store(supported) == IF supported THEN URING ELSE FD

\* ------------------------------------------------------- ghost bookkeeping
RECURSIVE LogWakes(_, _)
LogWakes(log, fired) ==
    IF fired = << >> THEN log
    ELSE LogWakes([log EXCEPT ![Head(fired).token] = @ + 1], Tail(fired))

CancelledBy(state, call) ==
    IF call.op = "cancel_waker" /\ is_some(state)
       /\ call.arg \in DOMAIN unwrap(state).token_map
    THEN {call.arg}
    ELSE {}

IssuedBy(call) ==
    IF call.op \in {"add_read_waker", "add_write_waker"} /\ call.res.ok
    THEN <<call.res.v>>
    ELSE << >>

NoWakes == [t \in Tokens |-> 0]

\* The tokens that leave a run with its output: select returns its pending
\* tasks to the caller, and those that registered still hold their tokens.
\* (A run that fails returns no task; its tasks are dropped with the list.)
HandedTokens(fl, res) ==
    IF fl.kind = "Select" /\ res.ok
    THEN {unwrap(fl.top[i].token) :
             i \in {j \in DOMAIN fl.top : ~fl.top[j].done /\ is_some(fl.top[j].token)}}
    ELSE {}

\* The model's cap: a registration is accepted only below MaxTokens (beyond
\* it the submission is refused).
TokenRoom(state, submit_ok) ==
    submit_ok /\ is_some(state) => unwrap(state).next_token < MaxTokens

\* ------------------------------------------------------------ L2 table cache
\* Error::InvalidVectorLength of l2_cache.rs.
InvalidVectorLength == "InvalidVectorLength"

\* The inputs of the cache's callers.
TableSizes == 1..MaxTableSize
Capacities == 0..MaxCapacity
L1Indices == 0..MaxL1Index
Indices == 0..MaxTableSize
\* The cluster addresses callers store: none (0) and one cluster.
Addrs == {0, 1}
\* The vectors callers load: every length up to MaxTableSize, one address
\* repeated.
VectorsOfLen(n) == {[i \in 1..n |-> a] : a \in Addrs}
Vectors == UNION {VectorsOfLen(n) : n \in 0..MaxTableSize}

\* L2Table::new: vec![0, table_size as u64] is the vector of the two listed
\* elements.
L2Table_new(table_size) ==
    [cluster_addrs |-> <<0, table_size>>, dirty |-> TRUE]

\* L2Table::from_vec.
L2Table_from_vec(addrs) ==
    [cluster_addrs |-> addrs, dirty |-> FALSE]

\* L2Table::get: the entry at index (counted from 0), or 0 past the end.
L2Table_get(self, index) ==
    IF index < Len(self.cluster_addrs) THEN self.cluster_addrs[index + 1] ELSE 0

\* set, had it marked the table whatever the index.
L2Table_set_marks_always(self, index, val) ==
    IF index < Len(self.cluster_addrs)
    THEN [self EXCEPT !.cluster_addrs[index + 1] = val, !.dirty = TRUE]
    ELSE [self EXCEPT !.dirty = TRUE]

\* L2Table::set.
L2Table_set(self, index, val) ==
    IF index < Len(self.cluster_addrs)
    THEN [self EXCEPT !.cluster_addrs[index + 1] = val, !.dirty = TRUE]
    ELSE self

\* L2Table::addrs.
L2Table_addrs(self) == self.cluster_addrs

\* HashMap::with_capacity: an empty map that allocates nothing for capacity
\* 0 and otherwise room for at least `capacity` entries; how many more
\* (`spare`) is the library's choice.  capacity() reports that room.
HashMap_with_capacity(capacity, spare) ==
    [entries |-> EmptyMap, capacity |-> IF capacity = 0 THEN 0 ELSE capacity + spare]
HashMap_len(map) == Cardinality(DOMAIN map.entries)
HashMap_capacity(map) == map.capacity
\* keys().nth(0): None on an empty map, else the key the iteration starts at.
HashMap_first_keys(map) ==
    IF DOMAIN map.entries = {} THEN {None} ELSE {Some(k) : k \in DOMAIN map.entries}

\* What keys().nth(0) can yield where insert calls it.
FirstKeys(self) ==
    IF HashMap_len(self.tables) = HashMap_capacity(self.tables)
    THEN HashMap_first_keys(self.tables)
    ELSE {None}

\* L2Cache::new.
L2Cache_new(table_size, capacity, spare) ==
    [tables |-> HashMap_with_capacity(capacity, spare), table_size |-> table_size]

\* L2Cache::get_table.
get_table(self, l1_index) ==
    IF l1_index \in DOMAIN self.tables.entries
    THEN Some(self.tables.entries[l1_index])
    ELSE None

\* L2Cache::create_table.
create_table(self) == L2Table_new(self.table_size)

\* L2Cache::take_table: the cache without the entry, and the entry marked
\* dirty.
take_table(self, l1_index) ==
    IF l1_index \in DOMAIN self.tables.entries
    THEN [cache |-> [self EXCEPT !.tables.entries = MapRemove(@, l1_index)],
          table |-> Some([self.tables.entries[l1_index] EXCEPT !.dirty = TRUE])]
    ELSE [cache |-> self, table |-> None]

\* L2Cache::insert.  `first` is what keys().nth(0) yields; unwrap of None
\* panics.  The value HashMap::insert returns is dropped.
insert(self, l1_index, table, first) ==
    LET full == HashMap_len(self.tables) = HashMap_capacity(self.tables)
        panic == full /\ ~is_some(first)
        evicted == IF full /\ is_some(first)
                   THEN Some(self.tables.entries[unwrap(first)])
                   ELSE None
        kept == IF full /\ is_some(first)
                THEN MapRemove(self.tables.entries, unwrap(first))
                ELSE self.tables.entries
    IN  IF panic
        THEN [cache |-> self, evicted |-> None, panic |-> TRUE]
        ELSE [cache |-> [self EXCEPT !.tables.entries = MapInsert(kept, l1_index, table)],
              evicted |-> evicted, panic |-> FALSE]

\* insert_vec, had it checked the length after inserting.
insert_vec_checks_late(self, l1_index, addrs, first) ==
    LET r == insert(self, l1_index, L2Table_from_vec(addrs), first)
    IN  IF Len(addrs) # self.table_size
        THEN [cache |-> r.cache, ok |-> FALSE, err |-> InvalidVectorLength,
              evicted |-> None, panic |-> r.panic]
        ELSE [cache |-> r.cache, ok |-> TRUE, err |-> "", evicted |-> r.evicted,
              panic |-> r.panic]

\* L2Cache::insert_vec.
insert_vec(self, l1_index, addrs, first) ==
    IF Len(addrs) # self.table_size
    THEN [cache |-> self, ok |-> FALSE, err |-> InvalidVectorLength,
          evicted |-> None, panic |-> FALSE]
    ELSE LET r == insert(self, l1_index, L2Table_from_vec(addrs), first)
         IN  [cache |-> r.cache, ok |-> TRUE, err |-> "", evicted |-> r.evicted,
              panic |-> r.panic]

\* L2Cache::dirty_iter_mut: the entries the filter lets through, by key.
dirty_iter_mut(self) ==
    [k \in {j \in DOMAIN self.tables.entries : self.tables.entries[j].dirty}
        |-> self.tables.entries[k]]

\* The call a cache step made and what it returned: `table` holds a returned
\* Option<L2Table>, `val` a returned u64, `yielded` the keys of the tables an
\* iteration yielded, `addrs` the vector given to insert_vec.
CacheCall(op, arg, ok, err, table, val, yielded) ==
    [op |-> op, arg |-> arg, ok |-> ok, err |-> err, table |-> table, val |-> val,
     yielded |-> yielded, addrs |-> << >>]
NoCacheCall == CacheCall("", 0, TRUE, "", None, 0, {})

\* Why a table's flag should be set: it was made by create_table, changed by
\* a set below table_size, or obtained through take_table.
NoneTouched == [cached |-> EmptyMap, hand |-> FALSE]

\* The cache variables of a thread that uses no cache.
CacheUnused ==
    /\ cache = L2Cache_new(1, 0, 0)
    /\ requested = 0
    /\ hand = None
    /\ cret = NoCacheCall
    /\ touched = NoneTouched
    /\ panicked = FALSE
    /\ ncalls = 0

\* ------------------------------------------------------------------ Init
Init ==
    /\ State = None
    /\ live = 0
    /\ futures = NoFutures
    /\ pc = "idle"
    /\ idx = 0
    /\ waits = 0
    /\ result = None
    /\ ret = NoCall
    /\ wake_log = NoWakes
    /\ cancelled = {}
    /\ issued = << >>
    /\ handed = {}
    /\ USE_URING = URING
    /\ sel = [t \in Threads |-> SelIdle]
    /\ probes = 1
    /\ CacheUnused

\* ---------------------------------------------------------------- actions
\* URingExecutor::new(UnitFutures::new()), as the tests construct it.
New ==
    /\ pc = "idle"
    /\ \E ctx_ok \in Inputs(~is_some(State)) :
         LET r == URingExecutor_new(State, UnitFutures_new, ctx_ok) IN
         /\ State' = r.state
         /\ live' = IF r.res.ok THEN live + 1 ELSE live
         /\ futures' = IF r.res.ok THEN r.res.v ELSE futures
         /\ ret' = Call("new", 0, IF r.res.ok THEN OkUnit ELSE r.res)
    /\ UNCHANGED <<pc, idx, waits, result, wake_log, cancelled, issued, handed, selector_vars, cache_vars>>

\* Drop of an executor the caller constructed itself.
Drop ==
    /\ pc = "idle"
    /\ live > 0
    /\ futures.kind = "Unit"
    /\ State' = URingExecutor_drop(State)
    /\ live' = live - 1
    /\ futures' = NoFutures
    /\ ret' = Call("drop", 0, OkUnit)
    /\ wake_log' = NoWakes
    /\ cancelled' = {}
    /\ issued' = << >>
    /\ UNCHANGED <<pc, idx, waits, result, handed, selector_vars, cache_vars>>

\* run_executor, ring branch: URingExecutor::new(future_list), then run().
RunExecutorCall ==
    /\ pc = "idle"
    /\ USE_URING = URING
    /\ \E fl \in ListsFor(State), ctx_ok \in Inputs(~is_some(State)) :
         LET r == URingExecutor_new(State, fl, ctx_ok) IN
         /\ IF r.res.ok
            THEN LET a == append_futures(r.res.v, r.state) IN
                 /\ State' = a.state
                 /\ futures' = a.futures
                 /\ live' = live + 1
                 /\ pc' = "poll"
                 /\ idx' = 1
                 /\ waits' = 0
                 /\ ret' = NoCall
            ELSE /\ ret' = Call("run_executor", 0, map_err(r.res, "URingExecutor"))
                 /\ UNCHANGED <<State, futures, live, pc, idx, waits>>
    /\ UNCHANGED <<result, wake_log, cancelled, issued, handed, selector_vars, cache_vars>>

\* ex.run() on an executor the caller constructed itself.
Run ==
    /\ pc = "idle"
    /\ live > 0
    /\ futures.kind = "Unit"
    /\ LET a == append_futures(futures, State) IN
       /\ State' = a.state
       /\ futures' = a.futures
       /\ pc' = IF a.panic THEN "panic" ELSE "poll"
    /\ idx' = 1
    /\ waits' = 0
    /\ ret' = NoCall
    /\ UNCHANGED <<live, result, wake_log, cancelled, issued, handed, selector_vars, cache_vars>>

\* poll_results polls the next future of the pass (one whose needs-poll flag
\* is clear is passed over).
PollTask ==
    /\ pc = "poll"
    /\ idx <= NumFutures(futures)
    /\ LET fut == FutureAt(futures, idx) IN
       IF ~fut.needs_poll
       THEN /\ ret' = NoCall
            /\ UNCHANGED <<State, futures, cancelled, issued>>
       ELSE \E dup_ok, submit_ok \in Inputs(Registers(fut)),
                 remove_ok, cqe \in Inputs(Cancels(fut)) :
              LET p == poll_future(fut, State, WakerAt(futures, idx),
                                   dup_ok, submit_ok, remove_ok, cqe) IN
              /\ TokenRoom(State, Registers(fut) /\ submit_ok)
              /\ State' = p.state
              /\ futures' = SetFutureAt(futures, idx, p.fut)
              /\ ret' = p.call
              /\ cancelled' = cancelled \cup CancelledBy(State, p.call)
              /\ issued' = issued \o IssuedBy(p.call)
    /\ idx' = idx + 1
    /\ UNCHANGED <<live, pc, waits, result, wake_log, handed, selector_vars, cache_vars>>

\* The pass is over: run returns the output or goes on (run_after_poll).
EndPass ==
    /\ pc = "poll"
    /\ idx > NumFutures(futures)
    /\ LET n == run_after_poll(futures, State) IN
       /\ State' = n.state
       /\ futures' = n.futures
       /\ pc' = n.pc
       /\ result' = n.result
    /\ idx' = 1
    /\ ret' = NoCall
    /\ UNCHANGED <<live, waits, wake_log, cancelled, issued, handed, selector_vars, cache_vars>>

\* run calls wait_wake_event: it fails, or blocks until the kernel has queued
\* a completion and then wakes the wakers of the completions it drains.
WaitWakeEventWith(wait_ok) ==
    /\ pc = "wait"
    /\ is_some(State)
    /\ wait_ok => unwrap(State).ctx.cq # << >>
    /\ LET w == wait_wake_event(unwrap(State), wait_ok)
           n == run_after_wait(futures, w) IN
       /\ State' = Some(w.state)
       /\ futures' = n.futures
       /\ wake_log' = LogWakes(wake_log, w.fired)
       /\ pc' = n.pc
       /\ result' = n.result
       /\ ret' = [Call("wait_wake_event", 0, w.res) EXCEPT !.events = w.events]
    /\ idx' = 1
    /\ waits' = waits + 1
    /\ UNCHANGED <<live, cancelled, issued, handed, selector_vars, cache_vars>>

WaitWakeEvent == \E wait_ok \in BOOLEAN : WaitWakeEventWith(wait_ok)

\* ex.run() returns to the caller that constructed the executor.
RunReturn ==
    /\ pc = "done"
    /\ futures.kind = "Unit"
    /\ pc' = "idle"
    /\ ret' = Call("run", 0, unwrap(result))
    /\ result' = None
    /\ UNCHANGED <<State, live, futures, idx, waits, wake_log, cancelled,
                   issued, handed, selector_vars, cache_vars>>

\* run_executor returns: the executor is dropped, an error is tagged with
\* the backend.  The caller keeps the pending tasks select hands back (keep),
\* or drops them at once: their cancels then find no reactor and change
\* nothing.
RunExecutorReturnWith(keep) ==
    /\ pc = "done"
    /\ futures.kind # "Unit"
    /\ State' = URingExecutor_drop(State)
    /\ live' = live - 1
    /\ futures' = NoFutures
    /\ pc' = "idle"
    /\ ret' = Call("run_executor", 0, map_err(unwrap(result), "URingExecutor"))
    /\ result' = None
    /\ wake_log' = NoWakes
    /\ cancelled' = {}
    /\ issued' = << >>
    /\ handed' = IF keep THEN handed \cup HandedTokens(futures, unwrap(result)) ELSE handed
    /\ UNCHANGED <<idx, waits, selector_vars, cache_vars>>

RunExecutorReturn == RunExecutorReturnWith(FALSE)

RunExecutorReturnKeeping == RunExecutorReturnWith(TRUE)

\* The kernel: the descriptor behind an armed poll becomes ready.
FdReady ==
    /\ is_some(State)
    /\ \E token \in unwrap(State).ctx.polls :
         State' = Some([unwrap(State) EXCEPT !.ctx = poll_complete(@, token)])
    /\ ret' = NoCall
    /\ UNCHANGED <<live, futures, pc, idx, waits, result, wake_log, cancelled,
                   issued, handed, selector_vars, cache_vars>>

\* The functions of lib.rs for futures, ring branch, called by the thread's
\* own code outside a run.  Interest is registered by futures while they are
\* polled (the waker is the one the poll is given); the thread's own code
\* reaches the two registering functions only without a reactor.
CallAddReadWaker ==
    /\ pc = "idle"
    /\ USE_URING = URING
    /\ ~is_some(State)
    /\ \E fd \in Fds, dup_ok, submit_ok \in Inputs(is_some(State)) :
         LET r == add_read_waker(State, fd, ExtWaker, dup_ok, submit_ok) IN
         /\ TokenRoom(State, submit_ok)
         /\ State' = r.state
         /\ ret' = Call("add_read_waker", fd, map_err(r.res, "URingExecutor"))
    /\ UNCHANGED <<live, futures, pc, idx, waits, result, wake_log, cancelled,
                   issued, handed, selector_vars, cache_vars>>

CallAddWriteWaker ==
    /\ pc = "idle"
    /\ USE_URING = URING
    /\ ~is_some(State)
    /\ \E fd \in Fds, dup_ok, submit_ok \in Inputs(is_some(State)) :
         LET r == add_write_waker(State, fd, ExtWaker, dup_ok, submit_ok) IN
         /\ TokenRoom(State, submit_ok)
         /\ State' = r.state
         /\ ret' = Call("add_write_waker", fd, map_err(r.res, "URingExecutor"))
    /\ UNCHANGED <<live, futures, pc, idx, waits, result, wake_log, cancelled,
                   issued, handed, selector_vars, cache_vars>>

CallCancelWaker ==
    /\ pc = "idle"
    /\ USE_URING = URING
    /\ \E token \in 0 .. MaxTokens :
       \E remove_ok, cqe \in Inputs(HasRecord(State, token)) :
         LET r == cancel_waker(State, token, remove_ok, cqe)
             c == [Call("cancel_waker", token, map_err(r.res, "URingExecutor"))
                     EXCEPT !.req = r.requested] IN
         /\ State' = r.state
         /\ ret' = c
         /\ cancelled' = cancelled \cup CancelledBy(State, c)
    /\ UNCHANGED <<live, futures, pc, idx, waits, result, wake_log, issued, handed, selector_vars, cache_vars>>

\* The caller drops a pending task that select handed back: the task's Drop
\* cancels the token it holds (as TestFut of the tests does), whatever
\* reactor the thread has by then.
DropPendingTask ==
    /\ pc = "idle"
    /\ USE_URING = URING
    /\ \E token \in handed :
       \E remove_ok, cqe \in Inputs(HasRecord(State, token)) :
         LET r == cancel_waker(State, token, remove_ok, cqe)
             c == [Call("cancel_waker", token, map_err(r.res, "URingExecutor"))
                     EXCEPT !.req = r.requested, !.stale = TRUE] IN
         /\ State' = r.state
         /\ ret' = c
         /\ cancelled' = cancelled \cup CancelledBy(State, c)
         /\ handed' = handed \ {token}
    /\ UNCHANGED <<live, futures, pc, idx, waits, result, wake_log, issued, selector_vars, cache_vars>>

CallAddFuture ==
    /\ pc = "idle"
    /\ USE_URING = URING
    /\ is_some(State) =>
         Len(unwrap(State).new_futures) + Len(futures.added) < MaxQueue
    /\ \E k \in UnitKinds :
         LET r == add_future(State, Task(k, 4)) IN
         /\ State' = r.state
         /\ ret' = Call("add_future", 0, map_err(r.res, "URingExecutor"))
    /\ UNCHANGED <<live, futures, pc, idx, waits, result, wake_log, cancelled,
                   issued, handed, selector_vars, cache_vars>>

\* ------------------------------------------------------ selector actions
\* A thread enters one of the functions of lib.rs; use_uring loads USE_URING.
UseUringLoad(t) ==
    /\ sel[t].pc = "out"
    /\ sel[t].calls < MaxCalls
    /\ \E caller \in SelectorCallers :
         LET m == use_uring_load(USE_URING) IN
         sel' = [sel EXCEPT ![t] =
                   [pc |-> m.pc, val |-> FALSE, caller |-> caller,
                    calls |-> IF m.pc = "out" THEN @.calls + 1 ELSE @.calls,
                    got |-> m.got]]
    /\ UNCHANGED <<USE_URING, probes, reactor_vars, cache_vars>>

\* uring_executor::supported(): the kernel creates the probe context or not.
UseUringProbe(t) ==
    /\ sel[t].pc = "supported"
    /\ \E supported \in BOOLEAN :
         sel' = [sel EXCEPT ![t].pc = "store", ![t].val = supported]
    /\ probes' = probes + 1
    /\ UNCHANGED <<USE_URING, reactor_vars, cache_vars>>

\* use_uring stores the outcome and returns it.
UseUringStore(t) ==
    /\ sel[t].pc = "store"
    /\ USE_URING' = use_uring_store(sel[t].val)
    /\ sel' = [sel EXCEPT ![t].pc = "out", ![t].calls = @ + 1,
                           ![t].got = Some(sel[t].val)]
    /\ UNCHANGED <<probes, reactor_vars, cache_vars>>

InitSelector ==
    /\ State = None
    /\ live = 0
    /\ futures = NoFutures
    /\ pc = "idle"
    /\ idx = 0
    /\ waits = 0
    /\ result = None
    /\ ret = NoCall
    /\ wake_log = NoWakes
    /\ cancelled = {}
    /\ issued = << >>
    /\ handed = {}
    /\ USE_URING = UNKNOWN
    /\ sel = [t \in Threads |-> SelIdle]
    /\ probes = 0
    /\ CacheUnused

NextSelector ==
    \E t \in Threads :
        \/ UseUringLoad(t)
        \/ UseUringProbe(t)
        \/ UseUringStore(t)

\* The selector alone, called by the threads of the process.
SpecSelector == InitSelector /\ [][NextSelector]_vars

\* ------------------------------------------------------------ cache actions
\* create_table: the caller holds the new table.
CreateTable ==
    /\ ~panicked
    /\ ncalls < MaxCacheCalls
    /\ ncalls' = ncalls + 1
    /\ hand' = Some(create_table(cache))
    /\ cret' = CacheCall("create_table", 0, TRUE, "", hand', 0, {})
    /\ touched' = [touched EXCEPT !.hand = TRUE]
    /\ UNCHANGED <<cache, requested, panicked, reactor_vars, selector_vars>>

\* L2Table::set on the table the caller holds.
TableSet ==
    /\ ~panicked
    /\ ncalls < MaxCacheCalls
    /\ ncalls' = ncalls + 1
    /\ is_some(hand)
    /\ \E index \in Indices, val \in Addrs :
         /\ hand' = Some(L2Table_set(unwrap(hand), index, val))
         /\ cret' = CacheCall("set", index, TRUE, "", None, val, {})
         /\ touched' = [touched EXCEPT !.hand = @ \/ index < cache.table_size]
    /\ UNCHANGED <<cache, requested, panicked, reactor_vars, selector_vars>>

\* L2Table::get on the table the caller holds.
TableGet ==
    /\ ~panicked
    /\ ncalls < MaxCacheCalls
    /\ ncalls' = ncalls + 1
    /\ is_some(hand)
    /\ \E index \in Indices :
         cret' = CacheCall("get", index, TRUE, "", None,
                           L2Table_get(unwrap(hand), index), {})
    /\ UNCHANGED <<cache, requested, hand, touched, panicked, reactor_vars,
                   selector_vars>>

\* insert of the table the caller holds; the caller holds what comes back.
Insert ==
    /\ ~panicked
    /\ ncalls < MaxCacheCalls
    /\ ncalls' = ncalls + 1
    /\ is_some(hand)
    /\ \E l1_index \in L1Indices, first \in FirstKeys(cache) :
         LET r == insert(cache, l1_index, unwrap(hand), first)
             full == HashMap_len(cache.tables) = HashMap_capacity(cache.tables)
             left == IF full THEN MapRemove(touched.cached, unwrap(first))
                     ELSE touched.cached
         IN  /\ panicked' = r.panic
             /\ cache' = r.cache
             /\ cret' = CacheCall("insert", l1_index, TRUE, "", r.evicted, 0, {})
             /\ IF r.panic
                THEN UNCHANGED <<hand, touched>>
                ELSE /\ hand' = r.evicted
                     /\ touched' =
                          [cached |-> MapInsert(left, l1_index, touched.hand),
                           hand |-> full /\ touched.cached[unwrap(first)]]
    /\ UNCHANGED <<requested, reactor_vars, selector_vars>>

\* insert_vec; the caller holds an evicted table that comes back.
InsertVec ==
    /\ ~panicked
    /\ ncalls < MaxCacheCalls
    /\ ncalls' = ncalls + 1
    /\ \E l1_index \in L1Indices, addrs \in Vectors,
          first \in FirstKeys(cache) :
         LET r == insert_vec(cache, l1_index, addrs, first)
             full == HashMap_len(cache.tables) = HashMap_capacity(cache.tables)
             left == IF full THEN MapRemove(touched.cached, unwrap(first))
                     ELSE touched.cached
         IN  /\ panicked' = r.panic
             /\ cache' = r.cache
             /\ cret' = [CacheCall("insert_vec", l1_index, r.ok, r.err, r.evicted,
                                   0, {}) EXCEPT !.addrs = addrs]
             /\ IF r.panic \/ ~r.ok
                THEN UNCHANGED <<hand, touched>>
                ELSE /\ hand' = IF is_some(r.evicted) THEN r.evicted ELSE hand
                     /\ touched' =
                          [cached |-> MapInsert(left, l1_index, FALSE),
                           hand |-> IF full THEN touched.cached[unwrap(first)]
                                    ELSE touched.hand]
    /\ UNCHANGED <<requested, reactor_vars, selector_vars>>

\* take_table; the caller holds the table taken.
TakeTable ==
    /\ ~panicked
    /\ ncalls < MaxCacheCalls
    /\ ncalls' = ncalls + 1
    /\ \E l1_index \in L1Indices :
         LET r == take_table(cache, l1_index) IN
         /\ cache' = r.cache
         /\ cret' = CacheCall("take_table", l1_index, TRUE, "", r.table, 0, {})
         /\ hand' = IF is_some(r.table) THEN r.table ELSE hand
         /\ touched' = IF is_some(r.table)
                       THEN [cached |-> MapRemove(touched.cached, l1_index),
                             hand |-> TRUE]
                       ELSE touched
    /\ UNCHANGED <<requested, panicked, reactor_vars, selector_vars>>

\* get_table.
GetTable ==
    /\ ~panicked
    /\ ncalls < MaxCacheCalls
    /\ ncalls' = ncalls + 1
    /\ \E l1_index \in L1Indices :
         cret' = CacheCall("get_table", l1_index, TRUE, "",
                           get_table(cache, l1_index), 0, {})
    /\ UNCHANGED <<cache, requested, hand, touched, panicked, reactor_vars,
                   selector_vars>>

\* dirty_iter_mut, run to its end.
DirtyIter ==
    /\ ~panicked
    /\ ncalls < MaxCacheCalls
    /\ ncalls' = ncalls + 1
    /\ cret' = CacheCall("dirty_iter_mut", 0, TRUE, "", None, 0,
                         DOMAIN dirty_iter_mut(cache))
    /\ UNCHANGED <<cache, requested, hand, touched, panicked, reactor_vars,
                   selector_vars>>

\* L2Cache::new with the caller's table size and capacity, on a thread that
\* runs no reactor.
InitCache ==
    /\ State = None
    /\ live = 0
    /\ futures = NoFutures
    /\ pc = "idle"
    /\ idx = 0
    /\ waits = 0
    /\ result = None
    /\ ret = NoCall
    /\ wake_log = NoWakes
    /\ cancelled = {}
    /\ issued = << >>
    /\ handed = {}
    /\ USE_URING = URING
    /\ sel = [t \in Threads |-> SelIdle]
    /\ probes = 1
    /\ \E table_size \in TableSizes, capacity \in Capacities, spare \in 0..MaxSpare :
         /\ cache = L2Cache_new(table_size, capacity, spare)
         /\ requested = capacity
    /\ hand = None
    /\ cret = NoCacheCall
    /\ touched = NoneTouched
    /\ panicked = FALSE
    /\ ncalls = 0

NextCache ==
    \/ CreateTable
    \/ TableSet
    \/ TableGet
    \/ Insert
    \/ InsertVec
    \/ TakeTable
    \/ GetTable
    \/ DirtyIter

\* One cache and the code that owns it.
SpecCache == InitCache /\ [][NextCache]_vars

Next ==
    \/ New
    \/ Drop
    \/ RunExecutorCall
    \/ Run
    \/ PollTask
    \/ EndPass
    \/ WaitWakeEvent
    \/ RunReturn
    \/ RunExecutorReturn
    \/ FdReady
    \/ CallAddReadWaker
    \/ CallAddWriteWaker
    \/ CallCancelWaker
    \/ CallAddFuture

\* One thread's reactor, in a process whose selector has committed to ring.
Spec == Init /\ [][Next]_vars

\* The same thread when its code keeps the pending tasks select returns and
\* drops them later, after the reactor that issued their tokens is gone.
NextStale ==
    \/ New
    \/ Drop
    \/ RunExecutorCall
    \/ Run
    \/ PollTask
    \/ EndPass
    \/ WaitWakeEvent
    \/ RunReturn
    \/ RunExecutorReturnKeeping
    \/ FdReady
    \/ CallAddFuture
    \/ DropPendingTask

SpecStale == Init /\ [][NextStale]_vars

\* The runs the entry points of lib.rs make, one after the other.
NextRun ==
    \/ RunExecutorCall
    \/ PollTask
    \/ EndPass
    \/ WaitWakeEvent
    \/ RunExecutorReturn
    \/ FdReady

\* The thread keeps executing its run loop, and wait() returns once the kernel
\* has queued a completion; nothing says that the kernel wait ever fails.
\* Each of these steps changes pc, idx or waits.
progress == <<pc, idx, waits>>
SpecLive ==
    /\ Init
    /\ [][NextRun]_vars
    /\ WF_progress(PollTask)
    /\ WF_progress(EndPass)
    /\ WF_progress(WaitWakeEventWith(TRUE))

\* ================================================================ properties
\* The step just taken was a call of `op` (every action records its call).
Called(op) == ret'.op = op
RegisterOps == {"add_read_waker", "add_write_waker"}
TokenMap(state) == unwrap(state).token_map
NextToken(state) == unwrap(state).next_token

\* ---------------------------------------------------------------------- C1
C1_AtMostOne == live <= 1 /\ (is_some(State) <=> live = 1)

C1_NewStep ==
    /\ Called("new") /\ is_some(State) =>
          /\ ret'.res = Err("AttemptedDuplicateExecutor")
          /\ State' = State /\ live' = live
    /\ Called("new") /\ ~is_some(State) =>
          /\ ret'.res = OkUnit \/ ret'.res = Err("CreatingContext")
          /\ ret'.res.ok => is_some(State') /\ live' = 1
    /\ Called("drop") => ~is_some(State') /\ live' = 0
    /\ Called("run_executor") /\ is_some(State) /\ pc = "idle" =>
          /\ ret'.res = map_err(Err("AttemptedDuplicateExecutor"), "URingExecutor")
          /\ State' = State /\ live' = live
    /\ Called("run_executor") /\ ~is_some(State) =>
          ret'.res = map_err(Err("CreatingContext"), "URingExecutor")

\* C1: on one thread, URingExecutor::new fails with AttemptedDuplicateExecutor
\* while an earlier reactor has not been dropped, and does not fail that way
\* once it has been dropped (it succeeds or reports CreatingContext); in every
\* reachable state at most one reactor exists on the thread.
C1_OneReactorPerThread == []C1_AtMostOne /\ [][C1_NewStep]_vars

\* A second construction was refused while the first reactor is alive.
C1_DuplicateRefused ==
    /\ ret.op = "new"
    /\ ret.res = Err("AttemptedDuplicateExecutor")
    /\ live = 1
    /\ is_some(State)

\* ---------------------------------------------------------------------- C2
C2_Issued ==
    /\ ~is_some(State) => issued = << >>
    /\ is_some(State) =>
          /\ Len(issued) = NextToken(State)
          /\ \A i \in DOMAIN issued : issued[i] = i - 1
          /\ \A i, j \in DOMAIN issued : i < j => issued[i] < issued[j]
          /\ DOMAIN TokenMap(State) \subseteq 0 .. (NextToken(State) - 1)

C2_RegisterStep ==
    /\ ~is_some(State) /\ is_some(State') => NextToken(State') = 0
    /\ is_some(State) /\ is_some(State') =>
          IF ret'.op \in RegisterOps /\ ret'.res.ok /\ issued' # issued
          THEN /\ ret'.res.v = NextToken(State)
               /\ ret'.res.v \notin DOMAIN TokenMap(State)
               /\ \A i \in DOMAIN issued : issued[i] < ret'.res.v
               /\ NextToken(State') = NextToken(State) + 1
               /\ DOMAIN TokenMap(State') = DOMAIN TokenMap(State) \cup {ret'.res.v}
          ELSE NextToken(State') = NextToken(State)

\* C2: within one reactor's lifetime the token counter starts at 0, every
\* successful registration returns the counter's value and increases it by
\* exactly 1, so the tokens returned are strictly increasing, none is issued
\* twice, and a token returned is not the key of a record already held.
C2_TokensMonotone == []C2_Issued /\ [][C2_RegisterStep]_vars

\* A second registration of the reactor has just returned token 1.
C2_SecondToken ==
    /\ ret.op \in RegisterOps
    /\ ret.res.ok
    /\ ret.res.v = 1
    /\ issued = <<0, 1>>
    /\ is_some(State) /\ NextToken(State) = 2

\* ---------------------------------------------------------------------- C3
C3_CancelledStaysSilent ==
    \A t \in cancelled : wake_log[t] = 0 /\ ~HasRecord(State, t)

C3_CancelStep ==
    Called("cancel_waker") /\ HasRecord(State, ret'.arg) =>
        /\ ~HasRecord(State', ret'.arg)
        /\ ret'.req
        /\ ret'.res = OkUnit \/ (~ret'.res.ok /\ ret'.res.err = "RemovingWaker")
        /\ ret'.res.ok => ret'.arg \notin unwrap(State').ctx.polls
        /\ ret'.arg \in cancelled'

\* C3: cancelling a token whose record is still held removes the record and
\* asks the kernel to remove the poll, and no later wait_wake_event wakes
\* that registration's waker, also when the kernel still queues a completion
\* carrying the token.
C3_CancelRemoves == []C3_CancelledStaysSilent /\ [][C3_CancelStep]_vars

\* wait_wake_event has just drained a completion carrying a cancelled token,
\* and the token's waker was not woken.
C3_DrainedCancelled ==
    /\ ret.op = "wait_wake_event"
    /\ ret.res.ok
    /\ \E i \in DOMAIN ret.events :
          ret.events[i] \in cancelled /\ wake_log[ret.events[i]] = 0

\* ---------------------------------------------------------------------- C4
\* On a thread with a reactor: the tokens never issued, cancelled or fired.
C4_Absent(t) ==
    \/ t \in cancelled
    \/ t \in Tokens /\ wake_log[t] > 0
    \/ t >= NextToken(State)

C4_AbsentHaveNoRecord ==
    is_some(State) =>
        \A t \in 0 .. MaxTokens : C4_Absent(t) => t \notin DOMAIN TokenMap(State)

C4_Idempotent ==
    is_some(State) =>
        \A t \in 0 .. MaxTokens, ok1, cqe1, ok2, cqe2 \in BOOLEAN :
            LET once == cancel_waker(State, t, ok1, cqe1)
                twice == cancel_waker(once.state, t, ok2, cqe2) IN
            /\ twice.state = once.state
            /\ twice.res = OkUnit
            /\ ~twice.requested

C4_NoOpStep ==
    Called("cancel_waker") /\ is_some(State) /\ ~HasRecord(State, ret'.arg) =>
        /\ ret'.res = OkUnit
        /\ ~ret'.req
        /\ State' = State
        /\ cancelled' = cancelled

\* C4: on a thread with a reactor, cancelling a token that is unknown, already
\* cancelled or already fired returns success and leaves the token map, the
\* counter, the queue of submitted tasks and the kernel context as they were,
\* with no kernel removal requested; a second cancel of a token returns
\* success and changes nothing after the first.
C4_CancelAbsentIsNoOp ==
    /\ []C4_AbsentHaveNoRecord
    /\ []C4_Idempotent
    /\ [][C4_NoOpStep]_vars

\* A token that had fired was cancelled: success, nothing requested.
C4_CancelledFired ==
    /\ ret.op = "cancel_waker"
    /\ ret.res = OkUnit
    /\ ~ret.req
    /\ is_some(State)
    /\ ret.arg \in Tokens
    /\ wake_log[ret.arg] = 1

\* ---------------------------------------------------------------------- C5
\* run has returned the output of a poll pass (not the failure of a wait).
Returned(kind) ==
    /\ pc = "done"
    /\ futures.kind = kind
    /\ is_some(result)
    /\ unwrap(result).ok
Output == unwrap(result).output
\* The value the task given as argument i completes with (EntryLists).
SlotValue(i) == 4 + i
SlotOutputs(i) == {SlotValue(i), FailedOut}

C5_Slots ==
    Returned("Select") =>
        LET slots == Output.select IN
        /\ DOMAIN slots = DOMAIN futures.top
        /\ \E i \in DOMAIN slots : slots[i].tag = "Finished"
        /\ \A i \in DOMAIN slots :
              IF futures.top[i].done
              THEN /\ slots[i].tag = "Finished"
                   /\ slots[i].value = unwrap(futures.top[i].out)
                   /\ slots[i].value \in SlotOutputs(i)
              ELSE /\ slots[i].tag = "Pending"
                   /\ is_some(slots[i].task)
                   /\ unwrap(slots[i].task) = futures.top[i]
                   /\ unwrap(slots[i].task).val = SlotValue(i)
                   /\ ~unwrap(slots[i].task).done

\* A pass of a select list starts, and the run blocks, with no task done.
C5_FirstPass ==
    /\ futures.kind = "Select"
    /\ pc = "wait" \/ (pc = "poll" /\ idx = 1)
    => \A i \in DOMAIN futures.top : ~futures.top[i].done

\* C5: select-N returns at the end of the first poll pass in which one of its
\* tasks completes; slot i is Finished(value of task i) exactly when task i
\* has completed and Pending(task i) otherwise, at least one slot is
\* Finished, and a Pending slot holds the caller's unfinished task.
C5_SelectSlots == C5_Slots /\ C5_FirstPass

\* select3 returned after two tasks completed in one pass, the third handed
\* back still holding its registration.
C5_TwoFinishedOnePending ==
    /\ Returned("Select")
    /\ Len(futures.top) = 3
    /\ Output.select[1] = Finished(5)
    /\ Output.select[2].tag = "Pending"
    /\ unwrap(Output.select[2].task).kind = "read"
    /\ is_some(unwrap(Output.select[2].task).token)
    /\ Output.select[3] = Finished(7)

\* ---------------------------------------------------------------------- C6
C6_Slots ==
    Returned("Complete") =>
        /\ DOMAIN Output.complete = DOMAIN futures.top
        /\ \A i \in DOMAIN Output.complete :
              /\ futures.top[i].done
              /\ Output.complete[i] = unwrap(futures.top[i].out)
              /\ Output.complete[i] \in SlotOutputs(i)

C6_NotEarlier ==
    /\ futures.kind = "Complete"
    /\ \E i \in DOMAIN futures.top : ~futures.top[i].done
    => ~Returned("Complete")

\* C6: complete-N returns only after every one of its tasks has completed,
\* and slot i of the output is the output of the task given as argument i,
\* whatever the order of completion and the number of passes and waits.
C6_CompleteOrder == C6_Slots /\ C6_NotEarlier

\* complete2 returned (5, 6) although its second task completed a pass and a
\* wait before its first.
C6_SecondFirst ==
    /\ Returned("Complete")
    /\ Len(futures.top) = 2
    /\ futures.top[1].kind = "read"
    /\ futures.top[2].kind = "ready"
    /\ waits >= 1
    /\ Output.complete = <<5, 6>>

\* ---------------------------------------------------------------------- C7
C7_BlockedMeansIdle ==
    pc = "wait" =>
        /\ is_some(State)
        /\ ~any_ready(futures)
        /\ unwrap(State).new_futures = << >>
        /\ poll_results_output(futures) = None
        /\ result = None

C7_WaitStep ==
    /\ pc' = "wait" /\ pc # "wait" =>
          /\ pc = "poll"
          /\ idx > NumFutures(futures)
          /\ poll_results_output(futures) = None
          /\ ~any_ready(futures')
    /\ waits' = waits + 1 => pc = "wait" /\ ~any_ready(futures)
    /\ Called("wait_wake_event") /\ ret' # ret => pc = "wait" /\ waits' = waits + 1

C7_RunOneReady ==
    pc = "done" /\ futures.kind = "RunOne" /\ futures.top[1].kind = "ready" =>
        /\ unwrap(result) = OkOutput([run_one |-> 5])
        /\ waits = 0

\* C7: run calls the blocking wait only directly after a poll pass whose
\* termination policy was not satisfied and after which, the newly merged
\* tasks included, no task is marked ready; run-one on a task that completes
\* on its first poll returns the task's value with no wait made.
C7_BlocksOnlyWhenIdle ==
    /\ []C7_BlockedMeansIdle
    /\ []C7_RunOneReady
    /\ [][C7_WaitStep]_vars

\* The run blocks after a pass that merged and polled a submitted task.
C7_BlockedAfterMerge ==
    /\ pc = "wait"
    /\ futures.kind = "Complete"
    /\ futures.added # << >>
    /\ \A i \in DOMAIN futures.added : futures.added[i].done

\* ---------------------------------------------------------------------- C8
Running == pc \in {"poll", "wait"}
InCq(t) == is_some(State) /\ \E i \in DOMAIN unwrap(State).ctx.cq : unwrap(State).ctx.cq[i] = t
\* Token t is held for read interest and the kernel has queued its completion.
ReadCompleted(t) ==
    /\ Running
    /\ HasRecord(State, t)
    /\ TokenMap(State)[t].events = ReadEvents
    /\ InCq(t)
WaitFailed == ret.op = "wait_wake_event" /\ ~ret.res.ok
\* The task given as argument i registered read interest and was marked
\* ready again by its waker.
WokenRead(i) ==
    /\ pc = "poll"
    /\ i \in DOMAIN futures.top
    /\ futures.top[i].kind = "read"
    /\ is_some(futures.top[i].token)
    /\ futures.top[i].needs_poll
TaskDone(i) == i \in DOMAIN futures.top /\ futures.top[i].done

\* C8: under the fairness of SpecLive, once the kernel has queued the
\* completion of a token held for read interest, the token's waker is woken
\* (unless the token is cancelled first, the run ends first, or the kernel
\* wait fails); a task woken this way is polled again and completes; when the
\* termination policy is satisfied run returns; and run-one on a task waiting
\* for a readable descriptor returns the task's value.
C8_ReadinessReachesTask ==
    /\ \A t \in Tokens :
          ReadCompleted(t) ~> (wake_log[t] > 0 \/ t \in cancelled \/ ~Running)
    /\ \A t \in Tokens :
          (pc = "wait" /\ ReadCompleted(t)) ~> (wake_log[t] > 0 \/ WaitFailed)
    /\ \A i \in 1 .. 3 : WokenRead(i) ~> (TaskDone(i) \/ ~Running)
    /\ (pc = "poll" /\ is_some(poll_results_output(futures))) ~> (pc = "done")
    /\ (futures.kind = "RunOne" /\ ReadCompleted(0) /\ futures.top[1].kind = "read")
          ~> (WaitFailed \/ (Returned("RunOne") /\ Output.run_one = 5))

\* run-one returned the value of a task that had registered read interest,
\* after one wait that woke it.
C8_WokenAndReturned ==
    /\ Returned("RunOne")
    /\ futures.top[1].kind = "read"
    /\ wake_log[0] = 1
    /\ waits = 1
    /\ Output.run_one = 5

\* ---------------------------------------------------------------------- C9
\* C9 (as stated): once USE_URING holds a choice it never changes.
C9_ChoiceFixed == [][USE_URING # UNKNOWN => USE_URING' = USE_URING]_vars

\* --------------------------------------------------------------------- C10
\* C10 (as stated): supported() is called at most once in the process.
C10_ProbeOnce == probes <= 1

\* --------------------------------------------------------------------- C11
\* The error a failed kernel wait gives run, and what run_executor makes of it.
WaitError == Err("URingEnter")
TaggedWaitError == [ok |-> FALSE, err |-> "URingEnter", backend |-> "URingExecutor"]

C11_FailedRunHasNoOutput ==
    /\ pc = "done" /\ is_some(result) /\ ~unwrap(result).ok =>
          /\ unwrap(result) = WaitError
          /\ DOMAIN unwrap(result) = {"ok", "err"}
          /\ waits >= 1
    /\ ret.op = "run_executor" /\ ~ret.res.ok => DOMAIN ret.res = {"ok", "err", "backend"}

C11_WaitFailureStep ==
    /\ Called("wait_wake_event") /\ ~ret'.res.ok =>
          /\ pc = "wait" /\ pc' = "done"
          /\ result' = Some(WaitError)
          /\ futures' = futures
          /\ State' = State
          /\ wake_log' = wake_log
    /\ pc = "done" /\ ~unwrap(result).ok /\ pc' # pc =>
          /\ pc' = "idle"
          /\ futures.kind # "Unit" =>
                /\ Called("run_executor")
                /\ ret'.res = TaggedWaitError
                /\ futures' = NoFutures
          /\ futures.kind = "Unit" => Called("run") /\ ret'.res = WaitError

\* C11: when the kernel wait fails, run polls nothing more and wakes nothing:
\* it returns Err(URingEnter) at once, and the entry point returns that one
\* error tagged URingExecutor, a value that holds no task output, whatever
\* tasks had completed in earlier passes.
C11_WaitFailureIsFatal == []C11_FailedRunHasNoOutput /\ [][C11_WaitFailureStep]_vars

\* complete2 has returned the tagged wait error although its second task had
\* completed in the pass before the wait.
C11_FailedAfterTaskDone ==
    /\ pc = "done"
    /\ futures.kind = "Complete"
    /\ Len(futures.top) = 2
    /\ futures.top[2].done
    /\ ~futures.top[1].done
    /\ waits = 1
    /\ map_err(unwrap(result), "URingExecutor") = TaggedWaitError

\* --------------------------------------------------------------------- C12
\* The error add_fd returns when the duplication (first) or the submission fails.
RegisterError(dup_ok, submit_ok) == IF ~dup_ok THEN "DuplicatingFd" ELSE "SubmittingWaker"

\* What the registry itself holds, the kernel context apart.
Registry(self) ==
    [token_map |-> self.token_map, next_token |-> self.next_token,
     new_futures |-> self.new_futures]

C12_FailedThenNext ==
    is_some(State) =>
        \A dup_ok, submit_ok \in BOOLEAN, events \in {ReadEvents, WriteEvents} :
            ~(dup_ok /\ submit_ok) =>
                LET failed == add_fd(unwrap(State), TaskFd, ExtWaker, events, dup_ok, submit_ok)
                    next == add_fd(failed.state, TaskFd, ExtWaker, events, TRUE, TRUE) IN
                /\ ~failed.res.ok
                /\ failed.res.err = RegisterError(dup_ok, submit_ok)
                /\ Registry(failed.state) = Registry(unwrap(State))
                /\ next.res.ok
                /\ next.res.v = NextToken(State)
                /\ DOMAIN next.state.token_map = DOMAIN TokenMap(State) \cup {NextToken(State)}

C12_FailedRegisterStep ==
    ret'.op \in RegisterOps /\ ~ret'.res.ok /\ is_some(State) =>
        /\ ret'.res.err \in {"DuplicatingFd", "SubmittingWaker"}
        /\ is_some(State')
        /\ Registry(unwrap(State')) = Registry(unwrap(State))
        /\ issued' = issued

\* C12: a registration whose descriptor duplication fails returns
\* DuplicatingFd, one whose kernel submission fails returns SubmittingWaker;
\* either way the token map, the counter and the queue of submitted tasks are
\* as before, and the next registration that succeeds returns the counter's
\* unchanged value.
C12_FailedRegistrationKeepsRegistry ==
    []C12_FailedThenNext /\ [][C12_FailedRegisterStep]_vars

\* The first task's registration failed, and the second task's registration
\* has just returned token 0.
C12_FailedThenTokenZero ==
    /\ pc = "poll"
    /\ Len(futures.top) >= 2
    /\ futures.top[1].kind \in {"read", "write"}
    /\ futures.top[1].out = Some(FailedOut)
    /\ futures.top[2].token = Some(0)
    /\ ret.op \in RegisterOps
    /\ ret.res.ok
    /\ ret.res.v = 0
    /\ NextToken(State) = 1

\* --------------------------------------------------------------------- C13
Queue(state) == unwrap(state).new_futures
\* A task as it was submitted: not polled yet.
Unpolled(f) == f = Task(f.kind, f.val)
PassOver == pc = "poll" /\ idx > NumFutures(futures)

C13_QueueMerged ==
    /\ is_some(State) => \A i \in DOMAIN Queue(State) : Unpolled(Queue(State)[i])
    /\ pc = "wait" \/ (pc = "poll" /\ idx = 1) => Queue(State) = << >>
    /\ pc = "wait" \/ PassOver =>
          \A i \in DOMAIN futures.added : ~Unpolled(futures.added[i])
    /\ Returned("Unit") =>
          \A i \in DOMAIN futures.added : futures.added[i].done

C13_MergeStep ==
    /\ Len(futures'.added) > Len(futures.added) =>
          /\ is_some(State)
          /\ futures'.added = futures.added \o Queue(State)
          /\ Queue(State') = << >>
    /\ Called("add_future") /\ ret'.res.ok =>
          /\ Len(Queue(State')) = Len(Queue(State)) + 1
          /\ SubSeq(Queue(State'), 1, Len(Queue(State))) = Queue(State)
          /\ Len(futures'.added) = Len(futures.added)
    /\ PassOver /\ idx' = 1 /\ pc' \in {"poll", "wait"} =>
          /\ futures'.added = futures.added \o Queue(State)
          /\ Queue(State') = << >>
          /\ Queue(State) # << >> => pc' = "poll"

InEvents(t, events) == \E i \in DOMAIN events : events[i] = t

C14_FiredOnceAndGone ==
    /\ \A t \in Tokens : wake_log[t] <= 1 /\ (wake_log[t] = 1 => ~HasRecord(State, t))
    /\ is_some(State) =>
          \A t \in Tokens :
              LET w == wake_events(TokenMap(State), <<t, t>>, << >>) IN
              IF t \in DOMAIN TokenMap(State)
              THEN /\ w.fired = <<[token |-> t, waker |-> TokenMap(State)[t].waker]>>
                   /\ w.token_map = MapRemove(TokenMap(State), t)
              ELSE /\ w.fired = << >>
                   /\ w.token_map = TokenMap(State)

C14_DrainStep ==
    Called("wait_wake_event") /\ ret'.res.ok =>
        /\ ret'.events = unwrap(State).ctx.cq
        /\ ret'.res = OkUnit
        /\ NextToken(State') = NextToken(State)
        /\ Queue(State') = Queue(State)
        /\ \A t \in Tokens :
              IF InEvents(t, ret'.events) /\ HasRecord(State, t)
              THEN /\ ~HasRecord(State', t)
                   /\ wake_log'[t] = wake_log[t] + 1
                   /\ wake(futures', TokenMap(State)[t].waker) = futures'
              ELSE /\ wake_log'[t] = wake_log[t]
                   /\ HasRecord(State', t) <=> HasRecord(State, t)
                   /\ HasRecord(State, t) => TokenMap(State')[t] = TokenMap(State)[t]
        /\ (\A i \in DOMAIN ret'.events : ~HasRecord(State, ret'.events[i])) =>
              /\ TokenMap(State') = TokenMap(State)
              /\ futures' = futures
              /\ wake_log' = wake_log

\* C14: wait_wake_event takes every completion the kernel has queued; a token
\* that has a record loses it and its waker is woken once, a token without a
\* record (cancelled before) is passed over with no error and no change; so
\* no registration's waker is woken more than once, also when the same token
\* is reported twice, and a token that has fired has no record.
C14_DrainWakesOnce == []C14_FiredOnceAndGone /\ [][C14_DrainStep]_vars

\* One wait_wake_event has passed over the completion of a cancelled token
\* and woken the waker of another.
C14_SkippedOneWokeOne ==
    /\ ret.op = "wait_wake_event"
    /\ ret.res.ok
    /\ Len(ret.events) >= 2
    /\ \E i, j \in DOMAIN ret.events :
          /\ ret.events[i] \in cancelled
          /\ wake_log[ret.events[i]] = 0
          /\ ret.events[j] \notin cancelled
          /\ wake_log[ret.events[j]] = 1
          /\ ~HasRecord(State, ret.events[j])

\* --------------------------------------------------------------------- C15
\* The tasks of the running list, merged ones first.
AllTasks(fl) == fl.added \o fl.top
\* Token t is held by a task that has not completed (and so is not dropped).
HeldByLiveTask(t) ==
    \E i \in DOMAIN AllTasks(futures) :
        /\ ~AllTasks(futures)[i].done
        /\ AllTasks(futures)[i].token = Some(t)
AllTasksDone == \A i \in DOMAIN AllTasks(futures) : AllTasks(futures)[i].done

C15_RecordsAreHeld ==
    is_some(State) =>
        /\ \A t \in DOMAIN TokenMap(State) : HeldByLiveTask(t)
        /\ AllTasksDone => TokenMap(State) = EmptyMap
        /\ Returned("Unit") => TokenMap(State) = EmptyMap

C15_LeaveStep ==
    \A t \in Tokens :
        HasRecord(State, t) /\ ~HasRecord(State', t) =>
            \/ Called("cancel_waker") /\ ret'.arg = t /\ t \in cancelled'
            \/ /\ Called("wait_wake_event")
               /\ InEvents(t, ret'.events)
               /\ wake_log'[t] = wake_log[t] + 1
            \/ ~is_some(State')

\* C15 (amended): tasks cancel the tokens they still hold when they are
\* dropped, so every record of the registry belongs to a task that has not
\* completed; when run returns with every task of its list completed, as a
\* run over side-effect tasks that returns success does, the token map is
\* empty, also for descriptors that never became ready.  A
\* record leaves the registry only by a cancel of its token, by its token
\* firing, or with the reactor.
C15_NoRecordOutlivesItsTask == []C15_RecordsAreHeld /\ [][C15_LeaveStep]_vars

\* A run over side-effect tasks has returned with an empty token map after a
\* task cancelled the token of a descriptor that never became ready.
C15_CancelledNeverReady ==
    /\ Returned("Unit")
    /\ \E i \in DOMAIN futures.added : futures.added[i].kind = "giveup"
    /\ NextToken(State) = 1
    /\ cancelled = {0}
    /\ wake_log = NoWakes
    /\ unwrap(State).ctx = URingContext_new
    /\ TokenMap(State) = EmptyMap

\* C15 (as stated): when run returns, the token map is empty.
C15_EmptyWhenRunReturns ==
    pc = "done" /\ is_some(result) /\ unwrap(result).ok => TokenMap(State) = EmptyMap

\* --------------------------------------------------------------------- C16
ConstructOps == {"new", "run_executor"}

C16_RetryPossible ==
    \A ctx_ok \in BOOLEAN :
        LET first == URingExecutor_new(State, UnitFutures_new, ctx_ok)
            again == URingExecutor_new(first.state, UnitFutures_new, TRUE) IN
        /\ ~first.res.ok => first.state = State
        /\ ~is_some(State) /\ ~ctx_ok =>
              /\ first.res = Err("CreatingContext")
              /\ again.res.ok
              /\ unwrap(again.state) = RingWakerState_new(TRUE).v
        /\ is_some(State) => first.res = Err("AttemptedDuplicateExecutor")

C16_FailedConstructionStep ==
    pc = "idle" /\ ret'.op \in ConstructOps /\ ~ret'.res.ok =>
        /\ ret'.res.err = IF is_some(State) THEN "AttemptedDuplicateExecutor"
                                            ELSE "CreatingContext"
        /\ State' = State
        /\ live' = live
        /\ futures' = futures
        /\ pc' = "idle"
        /\ wake_log' = wake_log /\ cancelled' = cancelled /\ issued' = issued

\* C16: a construction that fails, as a duplicate or because the kernel
\* context cannot be created, leaves the thread as it was: an existing
\* reactor keeps its records, its counter and its queued tasks and the
\* thread's slot is not cleared; after CreatingContext the thread still has no
\* reactor and a later construction succeeds with a fresh state.
C16_FailedConstructionChangesNothing ==
    []C16_RetryPossible /\ [][C16_FailedConstructionStep]_vars

\* A duplicate construction was refused on a thread whose reactor holds a
\* record and a queued task, and both are still there.
C16_RefusedWithRecords ==
    /\ ret.op \in ConstructOps
    /\ ~ret.res.ok
    /\ ret.res.err = "AttemptedDuplicateExecutor"
    /\ is_some(State)
    /\ TokenMap(State) # EmptyMap
    /\ NextToken(State) >= 1
    /\ Queue(State) # << >>

\* --------------------------------------------------------------------- C17
\* The functions futures call, and the error they give without a reactor as
\* lib.rs passes it on.
FutureOps == {"add_read_waker", "add_write_waker", "cancel_waker", "add_future"}
TaggedInvalidContext ==
    [ok |-> FALSE, err |-> "InvalidContext", backend |-> "URingExecutor"]

C17_NoReactorNoEffect ==
    ~is_some(State) =>
        /\ \A dup_ok, submit_ok \in BOOLEAN :
              /\ add_read_waker(State, TaskFd, ExtWaker, dup_ok, submit_ok)
                    = [state |-> None, res |-> Err("InvalidContext")]
              /\ add_write_waker(State, TaskFd, ExtWaker, dup_ok, submit_ok)
                    = [state |-> None, res |-> Err("InvalidContext")]
        /\ \A token \in 0 .. MaxTokens, remove_ok, cqe \in BOOLEAN :
              cancel_waker(State, token, remove_ok, cqe)
                 = [state |-> None, res |-> Err("InvalidContext"), requested |-> FALSE]
        /\ \A k \in UnitKinds :
              add_future(State, Task(k, 4)) = [state |-> None, res |-> Err("InvalidContext")]

C17_NoReactorStep ==
    ret'.op \in FutureOps /\ ~is_some(State) =>
        /\ ret'.res = TaggedInvalidContext
        /\ ~ret'.req
        /\ ~is_some(State')
        /\ live' = live /\ futures' = futures /\ pc' = pc
        /\ wake_log' = wake_log /\ cancelled' = cancelled /\ issued' = issued

\* C17: on a thread without a reactor, before the first construction and
\* after the last drop alike, add_read_waker, add_write_waker, cancel_waker
\* and add_future return InvalidContext and change nothing: no record, no
\* queued task and no reactor state comes to exist.
C17_InvalidContextWithoutReactor == []C17_NoReactorNoEffect /\ [][C17_NoReactorStep]_vars

\* cancel_waker has returned InvalidContext on a thread whose last reactor,
\* which had waited once, is dropped.
C17_CancelAfterDrop ==
    /\ ret.op = "cancel_waker"
    /\ ret.res = TaggedInvalidContext
    /\ ~is_some(State)
    /\ live = 0
    /\ waits = 1

\* --------------------------------------------------------------------- C18
C18_ErrorOnlyFromKernel ==
    is_some(State) =>
        \A token \in 0 .. MaxTokens, remove_ok, cqe \in BOOLEAN :
            LET r == cancel_waker(State, token, remove_ok, cqe)
                later == wake_events(TokenMap(r.state), <<token>>, << >>) IN
            /\ r.res.ok <=> ~(HasRecord(State, token) /\ ~remove_ok)
            /\ ~r.res.ok =>
                  /\ r.res = Err("RemovingWaker")
                  /\ r.requested
                  /\ ~HasRecord(r.state, token)
                  /\ Registry(unwrap(r.state)).next_token = NextToken(State)
                  /\ later.fired = << >>
                  /\ later.token_map = TokenMap(r.state)

C18_FailedCancelStep ==
    /\ Called("cancel_waker") /\ is_some(State) /\ ~ret'.res.ok =>
          /\ ret'.res.err = "RemovingWaker"
          /\ ret'.req
          /\ HasRecord(State, ret'.arg)
          /\ ~HasRecord(State', ret'.arg)
          /\ ret'.arg \in cancelled'
          /\ wake_log'[ret'.arg] = 0
    /\ Called("wait_wake_event") =>
          \A t \in cancelled : wake_log'[t] = 0 /\ ~HasRecord(State', t)

\* C18: on a thread with a reactor cancel_waker fails only with
\* RemovingWaker, and only when the token had a record and the kernel refused
\* the removal; the record is gone all the same, so a completion the kernel
\* later reports for the token finds no record and wakes nothing.
C18_FailedCancelStillRemoves == []C18_ErrorOnlyFromKernel /\ [][C18_FailedCancelStep]_vars

\* A cancel has failed with RemovingWaker while the kernel holds a completion
\* for the token: the record is gone and the waker was not woken.
C18_FailedWithCompletionQueued ==
    /\ ret.op = "cancel_waker"
    /\ ~ret.res.ok
    /\ ret.res.err = "RemovingWaker"
    /\ is_some(State)
    /\ InCq(ret.arg)
    /\ ~HasRecord(State, ret.arg)
    /\ wake_log[ret.arg] = 0

\* --------------------------------------------------------------------- C19
\* The state RingWakerState::new gives a reactor.
FreshState == RingWakerState_new(TRUE).v
\* The step drops the thread's executor.
DropsExecutor == live' = live - 1

C19_NothingSurvives ==
    /\ URingExecutor_drop(State) = None
    /\ URingExecutor_new(URingExecutor_drop(State), UnitFutures_new, TRUE).state
          = Some(FreshState)
    /\ FreshState.token_map = EmptyMap
    /\ FreshState.next_token = 0
    /\ FreshState.new_futures = << >>
    /\ ~is_some(State) =>
          /\ futures = NoFutures
          /\ wake_log = NoWakes
          /\ live = 0

C19_DropStep ==
    /\ DropsExecutor =>
          /\ Called("drop") \/ Called("run_executor")
          /\ is_some(State)
          /\ ~is_some(State')
          /\ futures' = NoFutures
          /\ wake_log' = NoWakes
          /\ ret'.events = << >>
    /\ ~is_some(State) /\ is_some(State') =>
          /\ unwrap(State') = FreshState
          /\ futures'.added = << >>
          /\ issued' = << >> /\ cancelled' = {}

\* C19: dropping the executor sets STATE to None: the token map with every
\* record left in it and the queue with every task not yet merged go with it,
\* no waker is woken and no task polled by the drop, and the reactor the
\* thread constructs next starts with an empty token map, an empty queue and
\* the counter at 0.
C19_DropDestroysRegistry == []C19_NothingSurvives /\ [][C19_DropStep]_vars

\* A new reactor has started empty, with its counter at 0, on a thread whose
\* earlier reactor was dropped while it held the record of a token that a
\* pending task still holds.
C19_FreshAfterDropWithRecord ==
    /\ ret.op = "new"
    /\ ret.res.ok
    /\ handed # {}
    /\ is_some(State)
    /\ unwrap(State) = FreshState

\* --------------------------------------------------------------------- C20
\* C20 (as stated): a cancel removes no record but the one that the
\* registration which returned its token created; the cancel of a token that
\* a reactor dropped since had issued removes no record of the thread's
\* present reactor.
C20_CancelRemovesOnlyItsRecord ==
    [][Called("cancel_waker") /\ is_some(State) =>
          \A t \in DOMAIN TokenMap(State) :
              ~HasRecord(State', t) => (t = ret'.arg /\ ~ret'.stale)]_vars

\* --------------------------------------------- properties of the L2 cache
\* A step that made a cache call, and an insert or insert_vec that went
\* through to HashMap::insert.
CacheCalled(op) == ncalls' = ncalls + 1 /\ cret'.op = op
Inserted ==
    /\ ncalls' = ncalls + 1
    /\ cret'.op \in {"insert", "insert_vec"}
    /\ cret'.ok
    /\ ~panicked'
Cached(c) == DOMAIN c.tables.entries

\* --------------------------------------------------------------------- C21
C21_Bounded == requested >= 1 => HashMap_len(cache.tables) <= requested
C21_EvictionStep ==
    Inserted /\ requested >= 1 =>
        /\ HashMap_len(cache.tables) = requested => is_some(cret'.table)
        /\ HashMap_len(cache.tables) < requested => ~is_some(cret'.table)
\* C21 (as stated): on a cache constructed with capacity c >= 1 the number of
\* cached tables never exceeds c; an insert into a cache holding c tables
\* evicts one table, and an insert into a cache holding fewer evicts none.
C21_CapacityBoundsTables == []C21_Bounded /\ [][C21_EvictionStep]_vars

\* --------------------------------------------------------------------- C22
\* The keys whose table an insert step took out of the cache: the keys that
\* are gone, and the key inserted under when it was occupied.
C22_Left == {k \in Cached(cache) : k \notin Cached(cache') \/ k = cret'.arg}
C22_InsertStep ==
    Inserted =>
        /\ \A k \in C22_Left : cret'.table = Some(cache.tables.entries[k])
        /\ cret'.op = "insert" => get_table(cache', cret'.arg) = hand
\* C22 (as stated): every table that leaves the cache because of an insert is
\* handed back as insert's return value; insert(l1_index, t) called while a
\* table is cached under l1_index returns that table, and after the insert
\* get_table(l1_index) is the table just inserted.
C22_InsertHandsBackWhatLeaves == [][C22_InsertStep]_vars

\* --------------------------------------------------------------------- C23
C23_RefusedStep ==
    CacheCalled("insert_vec") /\ Len(cret'.addrs) # cache.table_size =>
        /\ ~cret'.ok
        /\ cret'.err = InvalidVectorLength
        /\ ~is_some(cret'.table)
        /\ ~panicked'
        /\ cache' = cache
C23_LoadedStep ==
    CacheCalled("insert_vec") /\ Len(cret'.addrs) = cache.table_size /\ ~panicked' =>
        /\ cret'.ok
        /\ get_table(cache', cret'.arg)
             = Some([cluster_addrs |-> cret'.addrs, dirty |-> FALSE])
C24_CreatedIsZeroed ==
    cret.op = "create_table" =>
        /\ Len(L2Table_addrs(unwrap(hand))) = cache.table_size
        /\ \A i \in Indices : L2Table_get(unwrap(hand), i) = 0
C24_SetStep ==
    cret.op = "create_table" /\ CacheCalled("set") =>
        IF cret'.arg < cache.table_size
        THEN L2Table_get(unwrap(hand'), cret'.arg) = cret'.val
        ELSE L2Table_addrs(unwrap(hand')) = L2Table_addrs(unwrap(hand))
\* C24 (as stated): a table produced by create_table has table_size entries,
\* all zero: get(i) returns 0 for every i; for i < table_size, set(i, v)
\* followed by get(i) returns v, and set at an index >= table_size changes no
\* entry.
C24_CreateTableIsZeroed == []C24_CreatedIsZeroed /\ [][C24_SetStep]_vars

\* --------------------------------------------------------------------- C25
\* The cached tables with a reason to be flagged.  A reason, once recorded
\* for a table, stays with it: the steps move it along with the table and
\* only a table that insert_vec loads starts without one.
C25_TouchedCached == {k \in Cached(cache) : touched.cached[k]}
\* C25: dirty_iter_mut yields exactly the cached tables whose dirty flag is
\* set, and a table's flag is set exactly when the table was created by
\* create_table, changed by a set below table_size or obtained through
\* take_table; a table loaded by insert_vec that was only read or written
\* out of range is not yielded, and no flag that is set is cleared.
C25_DirtyFlagFollowsChanges ==
    /\ DOMAIN touched.cached = Cached(cache)
    /\ \A k \in Cached(cache) : cache.tables.entries[k].dirty = touched.cached[k]
    /\ is_some(hand) => unwrap(hand).dirty = touched.hand
    /\ DOMAIN dirty_iter_mut(cache) = C25_TouchedCached
    /\ \A k \in C25_TouchedCached : dirty_iter_mut(cache)[k] = cache.tables.entries[k]
    /\ cret.op = "dirty_iter_mut" => cret.yielded = C25_TouchedCached
\* A table that insert_vec loaded came back from the cache, was written out
\* of range and is still clean, while the cache holds a dirty table.
C25_CleanAfterOutOfRangeSet ==
    /\ cret.op = "set"
    /\ cret.arg >= cache.table_size
    /\ is_some(hand)
    /\ ~unwrap(hand).dirty
    /\ DOMAIN dirty_iter_mut(cache) # {}

\* --------------------------------------------------------------------- C26
\* C26 (as stated): insert completes normally on every cache, one
\* constructed with capacity 0 and one that holds no tables included: no
\* call to insert panics while choosing the table to evict.
C26_InsertNeverPanics == ~panicked

====
